---- MODULE Spec2Model ----
(***************************************************************************)
(* db-benchmark: the four store adaptors (sqlite, mysql, mongodb, redis),  *)
(* the timing loop and the runner that drives them in scenario and         *)
(* isolated mode.                                                          *)
(*                                                                         *)
(* A store is a record [rows, seq]: rows is the sequence of <<id, name>>   *)
(* records the backend holds (table rows, documents, record:<id> keys) and *)
(* seq is the backend's sequence counter (sqlite_sequence row, the         *)
(* AUTO_INCREMENT watermark, the meta counter document, the record:seq     *)
(* key), NoSeq when the backend holds no counter record.                   *)
(***************************************************************************)
EXTENDS Integers, Sequences, FiniteSets, TLC

VARIABLES
    db,       \* db[b]: the store behind adaptor b
    active,   \* the adaptors the calls of this behaviour go to
    call,     \* the last adaptor call: its name, arguments and what each adaptor returned
    prev,     \* db as it was when the last adaptor call was made
    run,      \* runner.py main(): configuration, position, ledger, connection
    inst,     \* the tool instances inserting concurrently into one store
    timer     \* benchmark_utils.py: one time_operation call and its summary

vars == <<db, active, call, prev, run, inst, timer>>

----------------------------------------------------------------------------
(* Bounds of the adaptor harness.                                          *)

\* Highest identity a counter may reach between two resets.
MaxSeq == 4

\* Longest list of values one insert_records call is given.
MaxLen == 2

Values == {"a", "b"}

Backends == {"sqlite", "mysql", "mongodb", "redis"}

\* The backend holds no counter record.
NoSeq == -1

\* Python's None passed as record_id / seq (the default of delete_record).
NoId == 0

\* Python's None as a value.
NoneVal == "None"

----------------------------------------------------------------------------
(* Helpers over rows.                                                      *)

Max2(a, b) == IF a >= b THEN a ELSE b

Min2(a, b) == IF a <= b THEN a ELSE b

Elements(xs) == {xs[i] : i \in 1..Len(xs)}

RowIds(rows) == {rows[i][1] : i \in 1..Len(rows)}

MaxOf(S) == CHOOSE m \in S : \A x \in S : x <= m

MinOf(S) == CHOOSE m \in S : \A x \in S : m <= x

RemoveAt(rows, i) == SubSeq(rows, 1, i - 1) \o SubSeq(rows, i + 1, Len(rows))

\* Position of the first record with identity id (the one find_one / update_one /
\* delete_one act on).
FirstIdx(rows, id) ==
    CHOOSE i \in 1..Len(rows) : rows[i][1] = id /\ \A j \in 1..(i - 1) : rows[j][1] # id

BySeq(x, y) == x[1] < y[1]

RECURSIVE sorted(_)
sorted(S) == IF S = {} THEN <<>> ELSE <<MinOf(S)>> \o sorted(S \ {MinOf(S)})

\* The rows list(zip(ids, records)) builds: records[i] gets identity base + i.
NewRows(base, records) == [i \in 1..Len(records) |-> <<base + i, records[i]>>]

\* What a lookup returns: a pair, None, or an exception raised to the caller.
Pair(i, v) == [kind |-> "pair", id |-> i, value |-> v]

None == [kind |-> "None", id |-> NoId, value |-> NoneVal]

Raised(e) == [kind |-> "raise", id |-> NoId, value |-> e]

----------------------------------------------------------------------------
(* sqlite_adaptor.py                                                       *)

\* Mutant: INTEGER PRIMARY KEY without AUTOINCREMENT: the new rowid is one more than
\* the largest in the table.
sqlite_insert_records_rowid_reuse(st, records) ==
    LET base == IF st.rows = <<>> THEN 0 ELSE MaxOf(RowIds(st.rows))
    IN  [rows |-> st.rows \o NewRows(base, records), seq |-> base + Len(records)]

\* INTEGER PRIMARY KEY AUTOINCREMENT: the new rowid is one more than the largest of
\* the rowids in the table and the sqlite_sequence row.
sqlite_insert_records(st, records) ==
    LET inTable == IF st.rows = <<>> THEN 0 ELSE MaxOf(RowIds(st.rows))
        inSeq   == IF st.seq = NoSeq THEN 0 ELSE st.seq
        base    == IF inTable > inSeq THEN inTable ELSE inSeq
    IN  [rows |-> st.rows \o NewRows(base, records), seq |-> base + Len(records)]

\* SELECT * FROM records: a scan of the rowid b-tree.
sqlite_read_all(st) == st.rows

sqlite_update_record(st, record_id, new_value) ==
    [st EXCEPT !.rows = [i \in 1..Len(st.rows) |->
        IF st.rows[i][1] = record_id THEN <<record_id, new_value>> ELSE st.rows[i]]]

\* DELETE FROM records WHERE id = (SELECT MAX(id) FROM records): record_id is not used.
sqlite_delete_record(st, record_id) ==
    LET IsNotMax(r) == r[1] # MaxOf(RowIds(st.rows))
    IN  IF st.rows = <<>> THEN st ELSE [st EXCEPT !.rows = SelectSeq(st.rows, IsNotMax)]

\* Mutant: reset_table without the DELETE FROM sqlite_sequence.
sqlite_reset_table_rows_only(st) == [rows |-> <<>>, seq |-> st.seq]

sqlite_reset_table(st) == [rows |-> <<>>, seq |-> NoSeq]

----------------------------------------------------------------------------
(* mysql_adaptor.py                                                        *)

\* INT AUTO_INCREMENT PRIMARY KEY: the table's counter gives the next id.
mysql_insert_records(st, records) ==
    [rows |-> st.rows \o NewRows(st.seq, records), seq |-> st.seq + Len(records)]

mysql_read_all(st) == st.rows

mysql_update_record(st, record_id, new_value) ==
    [st EXCEPT !.rows = [i \in 1..Len(st.rows) |->
        IF st.rows[i][1] = record_id THEN <<record_id, new_value>> ELSE st.rows[i]]]

\* DELETE ... WHERE id = (SELECT MAX(id) ...): record_id is not used.
mysql_delete_record(st, record_id) ==
    LET IsNotMax(r) == r[1] # MaxOf(RowIds(st.rows))
    IN  IF st.rows = <<>> THEN st ELSE [st EXCEPT !.rows = SelectSeq(st.rows, IsNotMax)]

\* TRUNCATE TABLE records: no rows, AUTO_INCREMENT back at its start.
mysql_reset_table(st) == [rows |-> <<>>, seq |-> 0]

----------------------------------------------------------------------------
(* mongodb_adaptor.py                                                      *)

\* Mutant: $set instead of $inc in _next_seqs.
mongodb_counter_set(st, n) == n

\* find_one_and_update({_id: SEQ_DOC_ID}, {$inc: {value: n}}, upsert=True, AFTER):
\* the counter document after the increment (created with value n when absent).
mongodb_counter_after(st, n) == (IF st.seq = NoSeq THEN 0 ELSE st.seq) + n

\* _next_seqs: the list [end - n + 1 .. end].
mongodb_next_seqs(st, n) ==
    IF n <= 0 THEN <<>>
    ELSE [i \in 1..n |-> mongodb_counter_after(st, n) - n + i]

mongodb_insert_records(st, records) ==
    LET seqs == mongodb_next_seqs(st, Len(records))
    IN  [rows |-> st.rows \o [i \in 1..Len(seqs) |-> <<seqs[i], records[i]>>],
         seq  |-> IF Len(records) <= 0 THEN st.seq
                  ELSE mongodb_counter_after(st, Len(records))]

\* find(...).sort("seq", 1)
mongodb_read_all(st) == SortSeq(st.rows, BySeq)

mongodb_read_by_id(st, seq) ==
    IF seq \in RowIds(st.rows)
    THEN Pair(seq, st.rows[FirstIdx(st.rows, seq)][2])
    ELSE None

mongodb_update_record(st, seq, new_name) ==
    IF seq \in RowIds(st.rows)
    THEN [st EXCEPT !.rows[FirstIdx(st.rows, seq)] = <<seq, new_name>>]
    ELSE st

\* Mutant: find_one_and_delete({}) without the sort: the first document goes.
mongodb_delete_record_unsorted(st, seq) ==
    IF seq # NoId
    THEN IF seq \in RowIds(st.rows)
         THEN [st EXCEPT !.rows = RemoveAt(st.rows, FirstIdx(st.rows, seq))]
         ELSE st
    ELSE IF st.rows = <<>> THEN st ELSE [st EXCEPT !.rows = Tail(st.rows)]

\* delete_one({seq}) when a seq is given, else find_one_and_delete sorted by seq
\* descending.
mongodb_delete_record(st, seq) ==
    IF seq # NoId
    THEN IF seq \in RowIds(st.rows)
         THEN [st EXCEPT !.rows = RemoveAt(st.rows, FirstIdx(st.rows, seq))]
         ELSE st
    ELSE IF st.rows = <<>> THEN st
         ELSE [st EXCEPT !.rows =
                  RemoveAt(st.rows, FirstIdx(st.rows, MaxOf(RowIds(st.rows))))]

\* runner.py's cold reset: records.drop(), meta.delete_one(record_seq).
mongodb_cold_reset(st) == [rows |-> <<>>, seq |-> NoSeq]

\* runner.py's isolated-mode reset: records.drop() alone; the counter document stays.
mongodb_isolated_drop(st) == [st EXCEPT !.rows = <<>>]

----------------------------------------------------------------------------
(* redis_adaptor.py                                                        *)

\* flushdb: every key goes, record:seq included.
redis_reset_store(st) == [rows |-> <<>>, seq |-> NoSeq]

\* _numeric_ids: the ids of the keys record:<digits>; str.isdigit rejects a sign.
redis_numeric_ids(st) == {i \in RowIds(st.rows) : i >= 0}

redis_exists(st, i) == i \in RowIds(st.rows)

\* GET record:<i>: the value, or None when the key does not exist.
redis_get(st, i) ==
    IF redis_exists(st, i) THEN st.rows[FirstIdx(st.rows, i)][2] ELSE NoneVal

\* SET record:<i> v: creates the key or replaces its value. The keyspace has no order
\* of its own; rows lists it by id.
redis_set(rows, i, v) ==
    IF i \in RowIds(rows)
    THEN [rows EXCEPT ![FirstIdx(rows, i)] = <<i, v>>]
    ELSE SortSeq(Append(rows, <<i, v>>), BySeq)

\* The counter the INCR loop starts from: record:seq, or when it does not exist the
\* highest numeric id (0 with no records).
redis_seq_start(st) ==
    IF st.seq # NoSeq THEN st.seq
    ELSE IF redis_numeric_ids(st) = {} THEN 0 ELSE MaxOf(redis_numeric_ids(st))

\* pipe.execute(): the queued SET record:<ids[k]> records[k], applied in order.
RECURSIVE redis_pipe_execute(_, _, _)
redis_pipe_execute(rows, ids, records) ==
    IF ids = <<>> THEN rows
    ELSE redis_pipe_execute(redis_set(rows, Head(ids), Head(records)), Tail(ids),
                            Tail(records))

\* Each value takes the next INCR of record:seq; the SETs run at pipe.execute().
redis_insert_records(st, records) ==
    LET base == redis_seq_start(st)
    IN  [rows |-> redis_pipe_execute(st.rows, [k \in 1..Len(records) |-> base + k], records),
         seq  |-> base + Len(records)]

\* Mutant: the ids in the order KEYS listed them (here newest first), without sorted().
redis_read_all_unsorted(st) ==
    LET ids == sorted(redis_numeric_ids(st))
        n   == Len(ids)
    IN  [k \in 1..n |-> <<ids[n + 1 - k], redis_get(st, ids[n + 1 - k])>>]

redis_read_all(st) ==
    LET ids == sorted(redis_numeric_ids(st))
    IN  [k \in 1..Len(ids) |-> <<ids[k], redis_get(st, ids[k])>>]

redis_update_record(st, record_id, new_value) ==
    [st EXCEPT !.rows = redis_set(st.rows, record_id, new_value)]

\* Deletes the key of the highest numeric id: record_id is not used.
redis_delete_record(st, record_id) ==
    LET ids == redis_numeric_ids(st)
    IN  IF ids = {} THEN st
        ELSE [st EXCEPT !.rows = RemoveAt(st.rows, FirstIdx(st.rows, MaxOf(ids)))]

redis_read_by_id(st, record_id) == Pair(record_id, redis_get(st, record_id))

----------------------------------------------------------------------------
(* The adaptor a db_type selects, and the attributes each module defines.  *)

Exposed(b) ==
    CASE b = "sqlite"  -> {"connect", "create_table", "insert_records", "read_all",
                           "update_record", "delete_record", "reset_table"}
      [] b = "mysql"   -> {"connect", "create_table", "insert_records", "read_all",
                           "update_record", "delete_record", "reset_table"}
      [] b = "mongodb" -> {"connect", "insert_records", "read_all", "read_by_id",
                           "update_record", "delete_record", "filter_contains"}
      [] b = "redis"   -> {"connect", "reset_store", "insert_records", "read_all",
                           "update_record", "delete_record", "read_by_id",
                           "filter_contains"}

insert_records(b, st, records) ==
    CASE b = "sqlite"  -> sqlite_insert_records(st, records)
      [] b = "mysql"   -> mysql_insert_records(st, records)
      [] b = "mongodb" -> mongodb_insert_records(st, records)
      [] b = "redis"   -> redis_insert_records(st, records)

read_all(b, st) ==
    CASE b = "sqlite"  -> sqlite_read_all(st)
      [] b = "mysql"   -> mysql_read_all(st)
      [] b = "mongodb" -> mongodb_read_all(st)
      [] b = "redis"   -> redis_read_all(st)

\* adaptor.read_by_id: an AttributeError where the module defines no read_by_id.
read_by_id(b, st, id) ==
    CASE b = "mongodb" -> mongodb_read_by_id(st, id)
      [] b = "redis"   -> redis_read_by_id(st, id)
      [] OTHER         -> Raised("AttributeError")

update_record(b, st, id, v) ==
    CASE b = "sqlite"  -> sqlite_update_record(st, id, v)
      [] b = "mysql"   -> mysql_update_record(st, id, v)
      [] b = "mongodb" -> mongodb_update_record(st, id, v)
      [] b = "redis"   -> redis_update_record(st, id, v)

delete_record(b, st, id) ==
    CASE b = "sqlite"  -> sqlite_delete_record(st, id)
      [] b = "mysql"   -> mysql_delete_record(st, id)
      [] b = "mongodb" -> mongodb_delete_record(st, id)
      [] b = "redis"   -> redis_delete_record(st, id)

\* The cold reset the runner performs for each backend.
cold_reset(b, st) ==
    CASE b = "sqlite"  -> sqlite_reset_table(st)
      [] b = "mysql"   -> mysql_reset_table(st)
      [] b = "mongodb" -> mongodb_cold_reset(st)
      [] b = "redis"   -> redis_reset_store(st)

\* A store nothing was ever written to.
Fresh(b) == IF b = "mysql" THEN [rows |-> <<>>, seq |-> 0] ELSE [rows |-> <<>>, seq |-> NoSeq]

----------------------------------------------------------------------------
(* The adaptor calls, made with the same arguments to every active adaptor. *)

Records == UNION {[1..n -> Values] : n \in 1..MaxLen}

\* The cap on issued identities: one lower when all four adaptors run in lockstep.
SeqCap == IF Cardinality(active) = 1 THEN MaxSeq ELSE MaxSeq - 1

IdArgs == 1..SeqCap

\* The identities insert_records gives the records, in input order: the last one is
\* where the backend's counter then stands.
issued_ids(b, st, records) ==
    LET n == Len(records)
    IN  [k \in 1..n |-> insert_records(b, st, records).seq - n + k]

\* call.after is the name of the call made before this one; call.issued[b] are the
\* identities this call's insert gave out, and call.high[b] is the highest identity any
\* insert has given out on b since the last reset (0 when none has).
NoCall == [op |-> "none", after |-> "none", records |-> <<>>, id |-> NoId,
           value |-> NoneVal, ret |-> [b \in Backends |-> None],
           issued |-> [b \in Backends |-> <<>>], high |-> [b \in Backends |-> 0]]

Idle == [pc |-> "idle"]

NoTimer == [pc |-> "idle"]

TypeOK ==
    /\ active \subseteq Backends
    /\ \A b \in Backends : db[b].seq \in {NoSeq} \cup Nat

InitAdaptor(bs) ==
    /\ active = bs
    /\ db = [b \in Backends |-> Fresh(b)]
    /\ prev = db
    /\ call = NoCall
    /\ run = Idle
    /\ inst = <<>>
    /\ timer = NoTimer

Init == \E b \in Backends : InitAdaptor({b})

InitEquiv == InitAdaptor(Backends)

Insert ==
    \E records \in Records :
        /\ \A b \in active : insert_records(b, db[b], records).seq <= SeqCap
        /\ db' = [b \in Backends |->
                    IF b \in active THEN insert_records(b, db[b], records) ELSE db[b]]
        /\ prev' = db
        /\ call' = [NoCall EXCEPT !.after = call.op, !.op = "insert_records",
                       !.records = records,
                       !.issued = [b \in Backends |->
                                     IF b \in active THEN issued_ids(b, db[b], records)
                                     ELSE <<>>],
                       !.high = [b \in Backends |->
                                   IF b \in active
                                   THEN Max2(call.high[b],
                                             MaxOf(Elements(issued_ids(b, db[b], records))))
                                   ELSE 0]]
        /\ UNCHANGED <<active, run, inst, timer>>

ReadAll ==
    /\ prev' = db
    /\ call' = [NoCall EXCEPT !.after = call.op, !.high = call.high, !.op = "read_all",
                   !.ret = [b \in Backends |->
                              IF b \in active THEN read_all(b, db[b]) ELSE None]]
    /\ UNCHANGED <<db, active, run, inst, timer>>

ReadById ==
    \E id \in IdArgs :
        /\ prev' = db
        /\ call' = [NoCall EXCEPT !.after = call.op, !.high = call.high, !.op = "read_by_id", !.id = id,
                       !.ret = [b \in Backends |->
                                  IF b \in active THEN read_by_id(b, db[b], id) ELSE None]]
        /\ UNCHANGED <<db, active, run, inst, timer>>

Update ==
    \E id \in IdArgs, v \in Values :
        /\ db' = [b \in Backends |->
                    IF b \in active THEN update_record(b, db[b], id, v) ELSE db[b]]
        /\ prev' = db
        /\ call' = [NoCall EXCEPT !.after = call.op, !.high = call.high, !.op = "update_record", !.id = id, !.value = v]
        /\ UNCHANGED <<active, run, inst, timer>>

Delete ==
    \E id \in IdArgs \cup {NoId} :
        /\ db' = [b \in Backends |->
                    IF b \in active THEN delete_record(b, db[b], id) ELSE db[b]]
        /\ prev' = db
        /\ call' = [NoCall EXCEPT !.after = call.op, !.high = call.high, !.op = "delete_record", !.id = id]
        /\ UNCHANGED <<active, run, inst, timer>>

Reset ==
    /\ db' = [b \in Backends |-> IF b \in active THEN cold_reset(b, db[b]) ELSE db[b]]
    /\ prev' = db
    /\ call' = [NoCall EXCEPT !.after = call.op, !.op = "reset"]
    /\ UNCHANGED <<active, run, inst, timer>>

Next == Insert \/ ReadAll \/ ReadById \/ Update \/ Delete \/ Reset

Spec == Init /\ [][Next]_vars

\* Records a counter-backed store can hold while it has no counter record: written by
\* another tool, or left behind when the counter was removed.
ManualRows == {<<<<1, "a">>>>, <<<<2, "b">>>>, <<<<1, "a">>, <<2, "b">>>>}

\* The adaptor is used on such a store (the MongoDB collection without a unique index
\* on seq, as after create_index("seq")).
InitManual ==
    /\ \E b \in {"mongodb", "redis"}, rows \in ManualRows :
          /\ active = {b}
          /\ db = [x \in Backends |->
                     IF x = b THEN [rows |-> rows, seq |-> NoSeq] ELSE Fresh(x)]
    /\ prev = db
    /\ call = NoCall
    /\ run = Idle
    /\ inst = <<>>
    /\ timer = NoTimer

SpecManual == InitManual /\ [][Next]_vars

SpecEquiv == InitEquiv /\ [][Next]_vars

----------------------------------------------------------------------------
(* runner.py and datasets/dataset_generator.py                             *)

\* Largest REPEATS, and largest DATASET_SIZE, a run is configured with.
MaxRepeats == 2

MaxDataset == 3

DbTypes == Backends \cup {"oracle"}

IsolatedOps == {"insert", "full_scan", "primary_key_lookup", "update", "delete", "vacuum"}

RepeatsEnv == 0..MaxRepeats

ReadIdEnv == {0 - 1, 0, 2, MaxDataset + 1}

DatasetSizeEnv == 1..MaxDataset

ScenarioStages == <<"insert", "full_scan", "primary_key_lookup", "update", "delete">>

IsSql(b) == b \in {"sqlite", "mysql"}

generate_dataset(size) == [i \in 1..size |-> "Record " \o ToString(i)]

\* dataset_size = max(2, int(DATASET_SIZE))
dataset_size(env) == Max2(2, env)

\* Mutant: read_id = READ_ID.
clamp_read_id_as_given(env, n) == env

\* read_id = max(1, min(READ_ID, len(records)))
clamp_read_id(env, n) == Max2(1, Min2(env, n))

\* Mutant: range(repeats), without the guard.
repeat_count_unguarded(repeats) == repeats

\* range(max(1, repeats)) in time_operation
repeat_count(repeats) == Max2(1, repeats)

\* f"{records[0]} (updated)"
updated_value(records) == records[1] \o " (updated)"

\* The reset an isolated-mode run performs, before the loop and in each repeat.
isolated_reset(b, st) ==
    CASE b = "sqlite"  -> sqlite_reset_table(st)
      [] b = "mysql"   -> mysql_reset_table(st)
      [] b = "mongodb" -> mongodb_isolated_drop(st)
      [] b = "redis"   -> redis_reset_store(st)

\* The adaptor calls one timed invocation makes, in order.
isolated_body(op) ==
    CASE op = "insert"             -> <<"reset", "insert_records">>
      [] op = "full_scan"          -> <<"read_all">>
      [] op = "primary_key_lookup" -> <<"read_by_id">>
      [] op = "update"             -> <<"reset", "insert_records", "update_record">>
      [] op = "delete"             -> <<"reset", "insert_records", "delete_record">>

stage_call(stage) ==
    CASE stage = "insert"             -> <<"insert_records">>
      [] stage = "full_scan"          -> <<"read_all">>
      [] stage = "primary_key_lookup" -> <<"read_by_id">>
      [] stage = "update"             -> <<"update_record">>
      [] stage = "delete"             -> <<"delete_record">>

\* SQLite/MySQL time closures (scenario_insert_once ... scenario_delete) that reset when
\* RESET_DATA is set and insert the dataset before the call; MongoDB and Redis time the
\* adaptor function itself.
scenario_body(b, reset, stage) ==
    IF IsSql(b)
    THEN (IF reset THEN <<"reset">> ELSE <<>>) \o <<"insert_records">>
         \o (IF stage = "insert" THEN <<>> ELSE stage_call(stage))
    ELSE stage_call(stage)

body(r) ==
    IF r.isolated THEN isolated_body(r.stage)
    ELSE scenario_body(r.db_type, r.reset, r.stage)

\* The identity a timed update / delete / lookup is given.
target_id(r) ==
    IF r.isolated \/ IsSql(r.db_type) \/ r.stage = "primary_key_lookup" THEN r.read_id
    ELSE IF r.stage = "update" THEN 1 ELSE 2

\* Mutant: isolated mode labels the run from RESET_DATA like scenario mode does.
run_type_from_reset(r) == IF r.reset THEN "cold" ELSE "warm"

run_type(r) == IF r.isolated \/ r.reset THEN "cold" ELSE "warm"

\* results/summary_<date>_<db_type>_<run type>_<len(records)>[_isolated].csv
summary_path(r) ==
    [db |-> r.db_type, run_type |-> run_type(r), records |-> Len(r.records),
     isolated |-> r.isolated]

Header == [path |-> "header", op |-> "operation", run_type |-> "run_type", runs |-> 0]

\* Mutant: the header is written on every call.
write_summary_csv_header_each_call(files, path, row) ==
    IF \E f \in files : f.path = path
    THEN {IF f.path = path THEN [f EXCEPT !.rows = f.rows \o <<Header, row>>] ELSE f :
             f \in files}
    ELSE files \cup {[path |-> path, rows |-> <<Header, row>>]}

\* write_summary_csv: the header when the file does not exist yet, then the row.
write_summary_csv(files, path, row) ==
    IF \E f \in files : f.path = path
    THEN {IF f.path = path THEN [f EXCEPT !.rows = Append(f.rows, row)] ELSE f : f \in files}
    ELSE files \cup {[path |-> path, rows |-> <<Header, row>>]}

NewRun(db_type, reset, isolated, op, repeats, readId, size) ==
    [pc |-> "start", db_type |-> db_type, reset |-> reset, isolated |-> isolated,
     op |-> op, repeats |-> repeats, READ_ID |-> readId, DATASET_SIZE |-> size,
     records |-> <<>>, read_id |-> 0, conn |-> "none", stage |-> "none",
     rep |-> 0, stmt |-> 1, files |-> {}, written |-> <<>>, stages |-> <<>>,
     atOp |-> <<>>, afterRep |-> <<>>, error |-> "none"]

\* The ledger file an earlier run of the same day and configuration left: the header
\* and that run's row.
EarlierLedger(r) ==
    LET path == summary_path([r EXCEPT !.records =
                                  generate_dataset(dataset_size(r.DATASET_SIZE))])
    IN  [path |-> path,
         rows |-> <<Header, [path |-> path, op |-> "insert", run_type |-> path.run_type,
                             runs |-> 1, timestamp |-> "earlier"]>>]

\* A run starts on a store never written to, or on one an earlier run left the dataset
\* in; its ledger file does not exist yet, or an earlier run created it.
InitRun ==
    /\ \E db_type \in DbTypes, reset \in BOOLEAN, repeats \in RepeatsEnv,
          readId \in ReadIdEnv, size \in DatasetSizeEnv, isolated \in BOOLEAN :
          \E op \in (IF isolated THEN IsolatedOps ELSE {"full_scan"}) :
              LET r == NewRun(db_type, reset, isolated, op, repeats, readId, size)
              IN  \E ledger \in BOOLEAN :
                      run = [r EXCEPT !.files = IF ledger THEN {EarlierLedger(r)} ELSE {}]
    /\ \E warm \in BOOLEAN :
          db = [b \in Backends |->
                  IF warm /\ b = run.db_type
                  THEN insert_records(b, Fresh(b), generate_dataset(2))
                  ELSE Fresh(b)]
    /\ active = {}
    /\ prev = db
    /\ call = NoCall
    /\ inst = <<>>
    /\ timer = NoTimer

\* main(): select_adaptor raises ValueError for an unknown DB_TYPE; else the dataset is
\* generated and READ_ID clamped.
Start ==
    /\ run.pc = "start"
    /\ run' = IF run.db_type \in Backends
              THEN LET recs == generate_dataset(dataset_size(run.DATASET_SIZE))
                   IN  [run EXCEPT !.pc = "connect", !.records = recs,
                                   !.read_id = clamp_read_id(run.READ_ID, Len(recs))]
              ELSE [run EXCEPT !.pc = "raised", !.error = "ValueError"]
    /\ UNCHANGED <<db, active, call, prev, inst, timer>>

\* adaptor.connect() (and create_table for SQLite/MySQL)
Connect ==
    /\ run.pc = "connect"
    /\ run' = [run EXCEPT !.pc = "cold", !.conn = "open"]
    /\ UNCHANGED <<db, active, call, prev, inst, timer>>

\* if reset: the cold reset of the backend
ColdReset ==
    /\ run.pc = "cold"
    /\ db' = IF run.reset
             THEN [db EXCEPT ![run.db_type] = cold_reset(run.db_type, db[run.db_type])]
             ELSE db
    /\ run' = IF run.isolated
              THEN [run EXCEPT !.pc = "iso_reset"]
              ELSE [run EXCEPT !.pc = "stage", !.stage = ScenarioStages[1]]
    /\ UNCHANGED <<active, call, prev, inst, timer>>

\* Isolated mode: reset, then the baseline insert for full_scan / primary_key_lookup.
IsoReset ==
    /\ run.pc = "iso_reset"
    /\ db' = [db EXCEPT ![run.db_type] = isolated_reset(run.db_type, db[run.db_type])]
    /\ run' = [run EXCEPT !.pc = "iso_base"]
    /\ UNCHANGED <<active, call, prev, inst, timer>>

IsoBaseline ==
    /\ run.pc = "iso_base"
    /\ db' = IF run.op \in {"full_scan", "primary_key_lookup"}
             THEN [db EXCEPT ![run.db_type] =
                      insert_records(run.db_type, db[run.db_type], run.records)]
             ELSE db
    /\ run' = [run EXCEPT !.pc = "iso_dispatch"]
    /\ UNCHANGED <<active, call, prev, inst, timer>>

\* Mutant: the chain ends in a plain else that times read_all instead of raising.
IsoDispatch_default_scan ==
    /\ run.pc = "iso_dispatch"
    /\ run' = [run EXCEPT !.pc = "timing", !.rep = 0, !.stmt = 1,
                          !.stage = IF run.op \in {"insert", "update", "delete"}
                                    THEN run.op ELSE "full_scan",
                          !.stages = Append(run.stages, run.op)]
    /\ UNCHANGED <<db, active, call, prev, inst, timer>>

\* The if/elif chain over ISOLATED_OP: an unknown operation raises ValueError, and
\* adaptor.read_by_id raises AttributeError where the module has none; else
\* time_operation is entered.
IsoDispatch ==
    /\ run.pc = "iso_dispatch"
    /\ run' =
         IF run.op \notin {"insert", "full_scan", "primary_key_lookup", "update", "delete"}
         THEN [run EXCEPT !.pc = "raised", !.error = "ValueError"]
         ELSE IF run.op = "primary_key_lookup" /\ "read_by_id" \notin Exposed(run.db_type)
         THEN [run EXCEPT !.pc = "raised", !.error = "AttributeError"]
         ELSE [run EXCEPT !.pc = "timing", !.stage = run.op, !.rep = 0, !.stmt = 1,
                          !.stages = Append(run.stages, run.op)]
    /\ UNCHANGED <<db, active, call, prev, inst, timer>>

\* Scenario mode: time_operation is entered for the next stage.
BeginStage ==
    /\ run.pc = "stage"
    /\ run' = [run EXCEPT !.pc = "timing", !.rep = 0, !.stmt = 1,
                          !.stages = Append(run.stages, run.stage)]
    /\ UNCHANGED <<db, active, call, prev, inst, timer>>

\* The run r after the adaptor call at r.stmt returned, the store now being st: the next
\* call of the invocation, the next repeat, or the end of time_operation.
Advance(r, before, st) ==
    LET last == r.stmt = Len(body(r))
        seen == IF last THEN [r EXCEPT !.atOp = Append(r.atOp, before.rows),
                                       !.afterRep = Append(r.afterRep, st.rows)]
                ELSE r
    IN  IF ~last THEN [seen EXCEPT !.stmt = r.stmt + 1]
        ELSE IF r.rep + 1 < repeat_count(r.repeats)
        THEN [seen EXCEPT !.rep = r.rep + 1, !.stmt = 1]
        ELSE [seen EXCEPT !.rep = r.rep + 1, !.stmt = 1, !.pc = "report"]

Timed(stmt) == run.pc = "timing" /\ body(run)[run.stmt] = stmt

TimedStep(st) ==
    /\ db' = [db EXCEPT ![run.db_type] = st]
    /\ run' = Advance(run, db[run.db_type], st)
    /\ UNCHANGED <<active, call, prev, inst, timer>>

TimedReset ==
    /\ Timed("reset")
    /\ TimedStep(IF run.isolated THEN isolated_reset(run.db_type, db[run.db_type])
                 ELSE cold_reset(run.db_type, db[run.db_type]))

TimedInsert ==
    /\ Timed("insert_records")
    /\ TimedStep(insert_records(run.db_type, db[run.db_type], run.records))

TimedReadAll ==
    /\ Timed("read_all")
    /\ TimedStep(db[run.db_type])

\* adaptor.read_by_id inside a closure raises AttributeError where the module has none;
\* the exception leaves time_operation and main.
TimedReadById ==
    /\ Timed("read_by_id")
    /\ IF "read_by_id" \in Exposed(run.db_type)
       THEN TimedStep(db[run.db_type])
       ELSE /\ run' = [run EXCEPT !.pc = "raised", !.error = "AttributeError"]
            /\ UNCHANGED <<db, active, call, prev, inst, timer>>

TimedUpdate ==
    /\ Timed("update_record")
    /\ TimedStep(update_record(run.db_type, db[run.db_type], target_id(run),
                               updated_value(run.records)))

TimedDelete ==
    /\ Timed("delete_record")
    /\ TimedStep(delete_record(run.db_type, db[run.db_type], target_id(run)))

\* Mutant: time_operation catches the exception and returns the durations it has.
TimedFail_partial_sample ==
    /\ run.pc = "timing"
    /\ run' = [run EXCEPT !.pc = "report", !.error = "StoreError"]
    /\ UNCHANGED <<db, active, call, prev, inst, timer>>

\* Any adaptor call of the timed callable can raise (the server is gone, a statement
\* fails). Neither _time_once, time_operation nor main catches it: the exception ends
\* the run where it is.
TimedFail ==
    /\ run.pc = "timing"
    /\ run' = [run EXCEPT !.pc = "raised", !.error = "StoreError"]
    /\ UNCHANGED <<db, active, call, prev, inst, timer>>

\* After time_operation: the summary row is written; scenario mode goes on to the next
\* stage, and after the last one (or in isolated mode) the run ends.
Report ==
    /\ run.pc = "report"
    /\ LET row == [path |-> summary_path(run), op |-> run.stage,
                   run_type |-> run_type(run), runs |-> run.rep, timestamp |-> "now"]
           k   == CHOOSE i \in 1..Len(ScenarioStages) : ScenarioStages[i] = run.stage
           wr  == [run EXCEPT !.files = write_summary_csv(run.files, summary_path(run), row),
                              !.written = Append(run.written, row)]
       IN  run' = IF run.isolated \/ k = Len(ScenarioStages)
                  THEN [wr EXCEPT !.pc = "close"]
                  ELSE [wr EXCEPT !.pc = "stage", !.stage = ScenarioStages[k + 1]]
    /\ UNCHANGED <<db, active, call, prev, inst, timer>>

\* conn.close() for SQLite/MySQL; the MongoDB and Redis branches end without a close.
Finish ==
    /\ run.pc = "close"
    /\ run' = [run EXCEPT !.pc = "returned",
                          !.conn = IF IsSql(run.db_type) THEN "closed" ELSE run.conn]
    /\ UNCHANGED <<db, active, call, prev, inst, timer>>

NextRun ==
    \/ Start \/ Connect \/ ColdReset \/ IsoReset \/ IsoBaseline \/ IsoDispatch
    \/ BeginStage \/ TimedReset \/ TimedInsert \/ TimedReadAll \/ TimedReadById
    \/ TimedUpdate \/ TimedDelete \/ TimedFail \/ Report \/ Finish

SpecRun == InitRun /\ [][NextRun]_vars

RunEnded == run.pc \in {"returned", "raised"}

----------------------------------------------------------------------------
(* Two tool instances running insert_records against one counter-backed    *)
(* store, each client command (or server-side atomic operation) a step.    *)

Instances == {1, 2}

\* The values instance i inserts: n of them, told apart from the other instance's.
InstanceRecords(i, n) == [k \in 1..n |-> "v" \o ToString(i) \o "." \o ToString(k)]

NewInstance(i, n, b) ==
    [pc |-> IF b = "redis" THEN "exists" ELSE "next_seqs",
     records |-> InstanceRecords(i, n), max_id |-> 0, ids |-> <<>>]

InitConc ==
    /\ \E b \in {"mongodb", "redis"}, warm \in BOOLEAN :
          /\ active = {b}
          /\ db = [x \in Backends |->
                     IF warm /\ x = b THEN insert_records(x, Fresh(x), <<"a">>)
                     ELSE Fresh(x)]
          /\ \E n1 \in 1..MaxLen, n2 \in 1..MaxLen :
                inst = [i \in Instances |-> NewInstance(i, IF i = 1 THEN n1 ELSE n2, b)]
    /\ prev = db
    /\ call = NoCall
    /\ run = Idle
    /\ timer = NoTimer

At(i, b, pc) == b \in active /\ inst[i].pc = pc

\* if not r.exists(SEQ_KEY)
RedisExists(i) ==
    /\ At(i, "redis", "exists")
    /\ inst' = [inst EXCEPT ![i].pc = IF db["redis"].seq # NoSeq THEN "incr" ELSE "keys"]
    /\ UNCHANGED <<db, active, call, prev, run, timer>>

\* existing_ids = list(_numeric_ids(r)); max_id = max(existing_ids) if existing_ids else 0
RedisKeys(i) ==
    /\ At(i, "redis", "keys")
    /\ inst' = [inst EXCEPT ![i].pc = "set_seq",
                            ![i].max_id = LET ids == redis_numeric_ids(db["redis"])
                                          IN  IF ids = {} THEN 0 ELSE MaxOf(ids)]
    /\ UNCHANGED <<db, active, call, prev, run, timer>>

\* r.set(SEQ_KEY, max_id)
RedisSetSeq(i) ==
    /\ At(i, "redis", "set_seq")
    /\ db' = [db EXCEPT !["redis"].seq = inst[i].max_id]
    /\ inst' = [inst EXCEPT ![i].pc = "incr"]
    /\ UNCHANGED <<active, call, prev, run, timer>>

\* new_id = int(r.incr(SEQ_KEY)); pipe.set(_key(new_id), val) is queued in the client.
\* INCR of a key that does not exist counts from 0.
RedisIncr(i) ==
    /\ At(i, "redis", "incr")
    /\ LET new_id == (IF db["redis"].seq = NoSeq THEN 0 ELSE db["redis"].seq) + 1
           ids    == Append(inst[i].ids, new_id)
       IN  /\ db' = [db EXCEPT !["redis"].seq = new_id]
           /\ inst' = [inst EXCEPT ![i].ids = ids,
                         ![i].pc = IF Len(ids) = Len(inst[i].records) THEN "execute"
                                   ELSE "incr"]
    /\ UNCHANGED <<active, call, prev, run, timer>>

\* pipe.execute(): the queued SETs, in order, as one MULTI/EXEC.
RedisExecute(i) ==
    /\ At(i, "redis", "execute")
    /\ db' = [db EXCEPT !["redis"].rows =
                 redis_pipe_execute(db["redis"].rows, inst[i].ids, inst[i].records)]
    /\ inst' = [inst EXCEPT ![i].pc = "done"]
    /\ UNCHANGED <<active, call, prev, run, timer>>

\* seqs = _next_seqs(db, len(records)): one find_one_and_update with $inc and upsert.
MongoNextSeqs(i) ==
    /\ At(i, "mongodb", "next_seqs")
    /\ LET n == Len(inst[i].records)
       IN  /\ inst' = [inst EXCEPT ![i].ids = mongodb_next_seqs(db["mongodb"], n),
                                   ![i].pc = "insert_many"]
           /\ db' = [db EXCEPT !["mongodb"].seq = mongodb_counter_after(db["mongodb"], n)]
    /\ UNCHANGED <<active, call, prev, run, timer>>

\* db.records.insert_many(docs)
MongoInsertMany(i) ==
    /\ At(i, "mongodb", "insert_many")
    /\ db' = [db EXCEPT !["mongodb"].rows =
                 @ \o [k \in 1..Len(inst[i].ids) |-> <<inst[i].ids[k], inst[i].records[k]>>]]
    /\ inst' = [inst EXCEPT ![i].pc = "done"]
    /\ UNCHANGED <<active, call, prev, run, timer>>

NextConc ==
    \E i \in Instances :
        \/ RedisExists(i) \/ RedisKeys(i) \/ RedisSetSeq(i) \/ RedisIncr(i)
        \/ RedisExecute(i) \/ MongoNextSeqs(i) \/ MongoInsertMany(i)

SpecConc == InitConc /\ [][NextConc]_vars

AllDone == inst # <<>> /\ \A i \in Instances : inst[i].pc = "done"

----------------------------------------------------------------------------
(* utils/benchmark_utils.py: time_operation and summarise. Elapsed times   *)
(* are whole clock ticks; mean and median are kept as fractions num / den. *)

\* Largest repeats argument, and longest elapsed time in ticks.
MaxSample == 3

MaxTicks == 3

Durations == 1..MaxTicks

\* REPEATS is int(os.getenv(...)): any integer, zero and negatives included.
RepeatsArg == (0 - 1)..MaxSample

Sum(xs) == LET RECURSIVE S(_)
               S(i) == IF i = 0 THEN 0 ELSE xs[i] + S(i - 1)
           IN  S(Len(xs))

Ascending(a, b) == a < b

\* statistics.median: the middle of the sorted data, or the mean of the two middles.
median(xs) ==
    LET s == SortSeq(xs, Ascending)
        n == Len(xs)
    IN  IF n % 2 = 1 THEN [num |-> s[(n + 1) \div 2], den |-> 1]
        ELSE [num |-> s[n \div 2] + s[(n \div 2) + 1], den |-> 2]

\* statistics.fmean
fmean(xs) == [num |-> Sum(xs), den |-> Len(xs)]

Zero == [num |-> 0, den |-> 1]

summarise(durations) ==
    LET xs == durations
        n  == Len(xs)
    IN  IF n = 0
        THEN [n |-> 0, min |-> 0, max |-> 0, mean |-> Zero, median |-> Zero]
        ELSE [n |-> n, min |-> xs[1], max |-> xs[n], mean |-> fmean(xs),
              median |-> median(xs)]

NoStats == [n |-> 0 - 1]

NewTimer(repeats) ==
    [pc |-> "loop", repeats |-> repeats, durations |-> <<>>, invoked |-> 0,
     log |-> <<>>, stats |-> NoStats]

\* time_operation(fn, repeats) is entered.
InitTime ==
    /\ \E repeats \in RepeatsArg : timer = NewTimer(repeats)
    /\ db = [b \in Backends |-> Fresh(b)]
    /\ active = {}
    /\ prev = db
    /\ call = NoCall
    /\ run = Idle
    /\ inst = <<>>

LoopRunning == timer.pc = "loop" /\ timer.invoked < repeat_count(timer.repeats)

\* durations.append(_time_once(fn, *args, **kwargs))
record_duration(durations, d) == Append(durations, d)

\* One pass of the loop: fn runs and returns after d ticks.
TimeOnce ==
    /\ LoopRunning
    /\ \E d \in Durations :
          timer' = [timer EXCEPT !.invoked = timer.invoked + 1,
                                 !.durations = record_duration(timer.durations, d),
                                 !.log = Append(timer.log,
                                                [call |-> timer.invoked + 1, elapsed |-> d])]
    /\ UNCHANGED <<db, active, call, prev, run, inst>>

\* One pass of the loop: fn raises, and the exception leaves time_operation.
TimeOnceRaises ==
    /\ LoopRunning
    /\ timer' = [timer EXCEPT !.invoked = timer.invoked + 1, !.pc = "raised"]
    /\ UNCHANGED <<db, active, call, prev, run, inst>>

\* return durations
TimeReturn ==
    /\ timer.pc = "loop" /\ ~LoopRunning
    /\ timer' = [timer EXCEPT !.pc = "returned"]
    /\ UNCHANGED <<db, active, call, prev, run, inst>>

\* summarise(t), as the orchestrator calls it on the returned sample
Summarise ==
    /\ timer.pc = "returned"
    /\ timer' = [timer EXCEPT !.pc = "summarised", !.stats = summarise(timer.durations)]
    /\ UNCHANGED <<db, active, call, prev, run, inst>>

NextTime == TimeOnce \/ TimeOnceRaises \/ TimeReturn \/ Summarise

SpecTime == InitTime /\ [][NextTime]_vars

----------------------------------------------------------------------------
(* Properties of the adaptor calls.                                        *)

RowSet(st) == {st.rows[i] : i \in 1..Len(st.rows)}

\* (1, v1), ..., (k, vk)
Numbered(records) == [i \in 1..Len(records) |-> <<i, records[i]>>]

\* rows without every record that holds identity id
WithoutId(rows, id) == {r \in {rows[i] : i \in 1..Len(rows)} : r[1] # id}

\* C2: for every backend, one insert of k values into a store a cold reset has just
\* left (whatever was inserted, updated or deleted before the reset) leaves exactly the
\* records (1, v1), ..., (k, vk), and read_all returns them in that order.
C2_ColdInsertRoundTrip ==
    \A b \in active :
        (call.op = "insert_records" /\ call.after = "reset") =>
            /\ Len(db[b].rows) = Len(call.records)
            /\ RowSet(db[b]) = {Numbered(call.records)[i] : i \in 1..Len(call.records)}
            /\ read_all(b, db[b]) = Numbered(call.records)

\* C2 witness: MaxLen values were inserted right after a cold reset and read_all returns
\* them numbered from 1.
C2_Witness ==
    /\ call.op = "insert_records" /\ call.after = "reset"
    /\ Len(call.records) = MaxLen
    /\ \A b \in active : read_all(b, db[b]) = Numbered(call.records)

\* C3: for every backend, inserting k records into a cold store and then k more, with
\* no call in between, leaves exactly 2k records with identities 1..2k: the first k
\* records are still there and the second k follow them.
C3_WarmContinuation ==
    [][\A b \in active :
          (/\ call.op = "insert_records" /\ call.after = "reset"
           /\ call'.op = "insert_records" /\ Len(call'.records) = Len(call.records))
          => LET k == Len(call.records)
             IN  /\ Len(db'[b].rows) = 2 * k
                 /\ RowIds(db'[b].rows) = 1..(2 * k)
                 /\ \A i \in 1..k : <<i, call.records[i]>> \in RowSet(db'[b])
                 /\ \A i \in 1..k : <<k + i, call'.records[i]>> \in RowSet(db'[b])]_vars

\* C3 witness: a second insert of MaxLen values right after a first one of MaxLen values
\* has brought the store to 2 * MaxLen records.
C3_Witness ==
    /\ call.op = "insert_records" /\ call.after = "insert_records"
    /\ Len(call.records) = MaxLen
    /\ \A b \in active :
          /\ Len(prev[b].rows) = MaxLen /\ prev[b].seq = MaxLen
          /\ RowIds(db[b].rows) = 1..(2 * MaxLen)

\* C5 (as claimed): after the same calls with the same arguments the four adaptors hold
\* the same (identity, value) records and have returned the same lookup results.
C5_AdaptorsEquivalent ==
    \A b1 \in active, b2 \in active :
        /\ RowSet(db[b1]) = RowSet(db[b2])
        /\ call.op = "read_by_id" => call.ret[b1] = call.ret[b2]

\* C6 (as claimed): for every backend, delete_record with an identity removes the record
\* holding that identity, if any, and nothing else.
C6_DeleteById ==
    \A b \in active :
        (call.op = "delete_record" /\ call.id # NoId) =>
            /\ RowSet(db[b]) = WithoutId(prev[b].rows, call.id)
            /\ Len(db[b].rows) = Cardinality(RowSet(db[b]))

\* C7: for every backend, delete_record without an identity removes exactly the record
\* with the highest identity; on an empty store it changes nothing, the sequence counter
\* included.
C7_DeleteNewest ==
    \A b \in active :
        (call.op = "delete_record" /\ call.id = NoId) =>
            IF prev[b].rows = <<>>
            THEN db[b] = prev[b]
            ELSE /\ RowSet(db[b]) = WithoutId(prev[b].rows, MaxOf(RowIds(prev[b].rows)))
                 /\ Len(db[b].rows) = Len(prev[b].rows) - 1
                 /\ db[b].seq = prev[b].seq

\* C7 witness: delete_record() took identity 3 from a store holding 1, 2 and 3.
C7_Witness ==
    /\ call.op = "delete_record" /\ call.id = NoId
    /\ \A b \in active : RowIds(prev[b].rows) = {1, 2, 3} /\ RowIds(db[b].rows) = {1, 2}

\* C8 (as claimed): for every backend, update_record on an identity no record holds
\* changes nothing, and on an identity a record holds changes that record's value only.
C8_UpdateMissingIsNoOp ==
    \A b \in active :
        call.op = "update_record" =>
            IF call.id \in RowIds(prev[b].rows)
            THEN RowSet(db[b]) = WithoutId(prev[b].rows, call.id) \cup {<<call.id, call.value>>}
            ELSE RowSet(db[b]) = RowSet(prev[b])

\* C9 (as claimed): for every backend, read_by_id returns (identity, value) when a record
\* holds the identity and None when none does, and leaves the store as it was.
C9_ReadById ==
    \A b \in active :
        call.op = "read_by_id" =>
            /\ db[b] = prev[b]
            /\ call.ret[b] =
                  IF call.id \in RowIds(prev[b].rows)
                  THEN Pair(call.id, prev[b].rows[FirstIdx(prev[b].rows, call.id)][2])
                  ELSE None

\* C23: for every backend, a read_all call returns every record the store holds exactly
\* once, in strictly ascending order of identity, and leaves the store as it was,
\* whatever inserts, updates, deletes and resets came before.
C23_ReadAllOrdered ==
    \A b \in active :
        call.op = "read_all" =>
            LET out == call.ret[b]
            IN  /\ db[b] = prev[b]
                /\ Len(out) = Len(db[b].rows)
                /\ {out[i] : i \in 1..Len(out)} = RowSet(db[b])
                /\ \A i \in 1..(Len(out) - 1) : out[i][1] < out[i + 1][1]

\* C23 witness: read_all returned 1 and 3, in that order, from a store that holds no
\* identity 2.
C23_Witness ==
    /\ call.op = "read_all"
    /\ \A b \in active :
          /\ Len(call.ret[b]) = 2
          /\ call.ret[b][1][1] = 1 /\ call.ret[b][2][1] = 3

\* C25: for every backend, the identities an insert gives out are increasing in input
\* order and all greater than every identity an insert has given out since the last
\* reset, whatever was updated or deleted in between; the records are stored under them.
C25_IdentitiesNeverReissued ==
    [][call'.op = "insert_records" =>
          \A b \in active :
              LET ids == call'.issued[b]
              IN  /\ Len(ids) = Len(call'.records)
                  /\ \A k \in 1..Len(ids) :
                        /\ ids[k] > call.high[b]
                        /\ k > 1 => ids[k] > ids[k - 1]
                        /\ <<ids[k], call'.records[k]>> \in RowSet(db'[b])]_vars

\* C25 witness: after 1 and 2 were given out and 2 was deleted, an insert gave out 3.
C25_Witness ==
    /\ call.op = "insert_records" /\ call.after = "delete_record"
    /\ \A b \in active : call.issued[b] = <<3>> /\ RowIds(db[b].rows) = {1, 3}

\* C26 (as claimed): on MongoDB and Redis, an insert that finds records but no counter
\* record starts the counter at the highest identity present: every identity it gives
\* out is above that, the records already there stay as they were, and no identity is
\* held by two records.
C26_CounterStartsAtMax ==
    \A b \in active \cap {"mongodb", "redis"} :
        (/\ call.op = "insert_records"
         /\ prev[b].seq = NoSeq /\ prev[b].rows # <<>>) =>
            LET m == MaxOf(RowIds(prev[b].rows))
            IN  /\ db[b].seq = m + Len(call.records)
                /\ \A k \in 1..Len(call.issued[b]) : call.issued[b][k] > m
                /\ RowSet(prev[b]) \subseteq RowSet(db[b])
                /\ Cardinality(RowIds(db[b].rows)) = Len(db[b].rows)

\* C27 (as claimed): in the Redis adaptor, whenever record:seq exists it is at least the
\* highest identity a record holds, so an insert never writes to a key that already
\* holds a record.
C27_RedisCounterCoversKeys ==
    "redis" \in active =>
        /\ (db["redis"].seq # NoSeq /\ db["redis"].rows # <<>>) =>
              db["redis"].seq >= MaxOf(RowIds(db["redis"].rows))
        /\ call.op = "insert_records" =>
              \A k \in 1..Len(call.issued["redis"]) :
                  call.issued["redis"][k] \notin RowIds(prev["redis"].rows)

----------------------------------------------------------------------------
(* Properties of a run.                                                    *)

IsPrefix(s, t) == Len(s) <= Len(t) /\ \A i \in 1..Len(s) : s[i] = t[i]

WrittenOps == [i \in 1..Len(run.written) |-> run.written[i].op]

\* C1 (as claimed): in isolated mode with ISOLATED_OP insert, update or delete, on every
\* backend, the operation under test finds the same records in every repeat (none for
\* insert, the dataset numbered from 1 for update and delete), and every repeat leaves
\* the same records as the first.
C1_IsolatedRepeatsIdentical ==
    (run.pc # "idle" /\ run.isolated /\ run.op \in {"insert", "update", "delete"}) =>
        /\ \A i \in 1..Len(run.atOp) :
              run.atOp[i] = IF run.op = "insert" THEN <<>> ELSE Numbered(run.records)
        /\ \A i \in 1..Len(run.afterRep) : run.afterRep[i] = run.afterRep[1]

\* C10 (as claimed): a scenario-mode run on any of the four backends enters the stages
\* INSERT, FULL_SCAN, LOOKUP, UPDATE, DELETE in that order, each once, writes one ledger
\* row per stage in that order, and ends having completed all five (unless the store
\* itself failed under it).
C10_ScenarioFiveStages ==
    (/\ run.pc # "idle" /\ ~run.isolated /\ run.db_type \in Backends
     /\ run.error # "StoreError") =>
        /\ IsPrefix(run.stages, ScenarioStages)
        /\ IsPrefix(WrittenOps, ScenarioStages)
        /\ RunEnded =>
              /\ run.pc = "returned"
              /\ run.stages = ScenarioStages
              /\ WrittenOps = ScenarioStages

\* C11 (as claimed): in scenario mode no reset is timed after the first INSERT repeat
\* has started, and no timed call outside the INSERT stage inserts the dataset: the
\* repeats of FULL_SCAN, LOOKUP, UPDATE and DELETE add no record.
C11_ScenarioResetsOnce ==
    [][(run.pc = "timing" /\ ~run.isolated /\ run'.error = "none") =>
          /\ (body(run)[run.stmt] = "reset") =>
                (run.stage = "insert" /\ run.rep = 0)
          /\ (body(run)[run.stmt] = "insert_records") => run.stage = "insert"
          /\ (run.stage # "insert") =>
                RowIds(db'[run.db_type].rows) \subseteq RowIds(db[run.db_type].rows)]_vars

\* C12 (as claimed): whatever the configuration, the timed callable makes the same
\* adaptor calls in the same order with the same identity argument on every backend.
C12_UniformWorkload ==
    run.pc = "timing" =>
        \A b \in Backends :
            /\ body([run EXCEPT !.db_type = b]) = body(run)
            /\ target_id([run EXCEPT !.db_type = b]) = target_id(run)

\* C13 (as claimed): in isolated mode with ISOLATED_OP full_scan or primary_key_lookup,
\* on every backend and for either value of RESET_DATA, once the baseline insert is done
\* the store holds exactly the dataset numbered from 1, and it still does before and
\* after every repeat.
C13_IsolatedReadBaseline ==
    (/\ run.pc \in {"iso_dispatch", "timing", "report", "close", "returned", "raised"}
     /\ run.isolated /\ run.op \in {"full_scan", "primary_key_lookup"}
     /\ run.db_type \in Backends) =>
        /\ read_all(run.db_type, db[run.db_type]) = Numbered(run.records)
        /\ Len(db[run.db_type].rows) = Len(run.records)
        /\ \A i \in 1..Len(run.afterRep) :
              /\ run.atOp[i] = db[run.db_type].rows
              /\ run.afterRep[i] = db[run.db_type].rows

\* C14 (as claimed): a run that ends with a configuration error (unknown DB_TYPE, or
\* unknown ISOLATED_OP in isolated mode) never called connect and left every store as it
\* was when the run began.
C14_ConfigErrorBeforeConnect ==
    (run.pc = "raised" /\ run.error = "ValueError") =>
        /\ run.conn = "none"
        /\ db = prev

\* C15: in isolated mode with an ISOLATED_OP outside insert, full_scan,
\* primary_key_lookup, update and delete, the run never enters time_operation, writes no
\* ledger row, and can only end by raising ValueError.
C15_UnsupportedOpFailsFast ==
    (/\ run.isolated /\ run.db_type \in Backends
     /\ run.op \notin {"insert", "full_scan", "primary_key_lookup", "update", "delete"}) =>
        /\ run.pc \notin {"timing", "report", "close", "returned"}
        /\ run.stages = <<>> /\ run.atOp = <<>> /\ run.afterRep = <<>>
        /\ run.written = <<>>
        /\ \A f \in run.files : \A i \in 1..Len(f.rows) :
              f.rows[i] = Header \/ f.rows[i].timestamp = "earlier"
        /\ RunEnded => (run.pc = "raised" /\ run.error = "ValueError")

\* C15 witness: an isolated MongoDB run with ISOLATED_OP = vacuum has ended in ValueError.
C15_Witness ==
    /\ RunEnded /\ run.isolated /\ run.op = "vacuum"
    /\ run.db_type = "mongodb" /\ run.error = "ValueError"

\* C16 (as claimed): when a run has ended, by returning or by raising, on any backend,
\* the connection it opened is closed.
C16_ConnectionClosedAtEnd ==
    RunEnded => run.conn # "open"

\* C18: when a call made by the timed callable raises, in whichever repeat, the run
\* ends there: the store and the ledger are as they were, no row has been written for
\* the operation being timed, and no step follows (no further invocation, no retry, no
\* later stage).
C18_FailureAbortsRun ==
    [][/\ run.pc # "raised"
       /\ (run.pc = "timing" /\ run'.error # "none") =>
             /\ run' = [run EXCEPT !.pc = "raised", !.error = run'.error]
             /\ db' = db
             /\ \A i \in 1..Len(run'.written) : run'.written[i].op # run.stage]_vars

\* C18 witness: a scenario-mode run raised in the second repeat of FULL_SCAN, after the
\* row for INSERT was written.
C18_Witness ==
    /\ run.pc = "raised" /\ run.error = "StoreError" /\ ~run.isolated
    /\ run.stage = "full_scan" /\ run.rep = 1
    /\ WrittenOps = <<"insert">>

FileAt(files, path) == CHOOSE f \in files : f.path = path

Paths(files) == {f.path : f \in files}

\* C21: every ledger file has the header as its first row and nowhere else, whether
\* this run created the file or an earlier one did; and each write_summary_csv call
\* leaves every other file alone and adds exactly one data row at the end of its file,
\* the rows already there unchanged.
C21_LedgerAppendOnly ==
    [][/\ \A f \in run.files :
             /\ f.rows[1] = Header
             /\ \A i \in 2..Len(f.rows) : f.rows[i] # Header
       /\ run'.files # run.files =>
             LET path == summary_path(run)
                 new  == FileAt(run'.files, path).rows
                 old  == IF path \in Paths(run.files)
                         THEN FileAt(run.files, path).rows ELSE <<Header>>
             IN  /\ Paths(run'.files) = Paths(run.files) \cup {path}
                 /\ \A f \in run.files : f.path # path => f \in run'.files
                 /\ Len(new) = Len(old) + 1
                 /\ IsPrefix(old, new)
                 /\ new[Len(new)] # Header /\ new[Len(new)].op = run.stage]_vars

\* C21 witness: a run has added two rows to the file an earlier run created.
C21_Witness ==
    \E f \in run.files :
        /\ Len(f.rows) = 4 /\ f.rows[1] = Header
        /\ f.rows[2].timestamp = "earlier"
        /\ f.rows[3].timestamp = "now" /\ f.rows[4].timestamp = "now"

\* C22: whatever READ_ID and DATASET_SIZE are, the dataset has max(2, DATASET_SIZE)
\* records and the identity a timed read_by_id is given lies in 1..len(records).
C22_LookupIdClamped ==
    (run.pc = "timing" /\ body(run)[run.stmt] = "read_by_id") =>
        /\ Len(run.records) >= 2 /\ Len(run.records) >= run.DATASET_SIZE
        /\ 1 <= target_id(run) /\ target_id(run) <= Len(run.records)

\* C22 witness: read_by_id is about to be timed with the last identity of the dataset,
\* READ_ID being beyond it.
C22_Witness ==
    /\ run.pc = "timing" /\ body(run)[run.stmt] = "read_by_id"
    /\ run.READ_ID > Len(run.records) /\ target_id(run) = Len(run.records)

\* C24 (as claimed): every reset the runner performs (the cold reset, the isolated-mode
\* reset before the loop, the reset inside a timed repeat) leaves the store without
\* records and with its counter at the start, so that the next insert numbers from 1,
\* and performing the same reset again changes nothing.
C24_ResetToBaseline ==
    [][(\/ run.pc = "cold" /\ run.reset
        \/ run.pc = "iso_reset"
        \/ run.pc = "timing" /\ body(run)[run.stmt] = "reset" /\ run'.error = "none") =>
          LET b     == run.db_type
              st    == db'[b]
              again == IF run.pc = "cold" \/ ~run.isolated THEN cold_reset(b, st)
                       ELSE isolated_reset(b, st)
          IN  /\ st.rows = <<>>
              /\ insert_records(b, st, <<"x">>).rows = <<<<1, "x">>>>
              /\ again = st]_vars

\* C28: an isolated-mode run writes no ledger row before all max(1, REPEATS) repeats
\* are done and at most one row in all; the row names ISOLATED_OP, carries run type
\* cold and goes to the _isolated path of run type cold, whatever RESET_DATA is; the
\* run enters no stage but ISOLATED_OP, and when it returns the row has been written.
C28_IsolatedLedgerRow ==
    run.isolated =>
        /\ Len(run.written) <= 1
        /\ \A i \in 1..Len(run.stages) : i = 1 /\ run.stages[i] = run.op
        /\ \A i \in 1..Len(run.written) :
              /\ Len(run.afterRep) = (IF run.repeats >= 1 THEN run.repeats ELSE 1)
              /\ run.written[i].op = run.op
              /\ run.written[i].runs = Len(run.afterRep)
              /\ run.written[i].run_type = "cold"
              /\ run.written[i].path.isolated /\ run.written[i].path.run_type = "cold"
        /\ \A f \in run.files : \A i \in 2..Len(f.rows) :
              f.rows[i].timestamp = "now" =>
                  (f.path.isolated /\ f.path.run_type = "cold" /\ f.rows[i] = run.written[1])
        /\ run.pc = "returned" =>
              (Len(run.written) = 1 /\
               \E f \in run.files : f.rows[Len(f.rows)] = run.written[1])

\* C28 witness: an isolated update run with RESET_DATA = false and REPEATS = 2 has
\* returned, its one row written.
C28_Witness ==
    /\ run.isolated /\ run.pc = "returned" /\ ~run.reset
    /\ run.op = "update" /\ run.repeats = 2
    /\ Len(run.written) = 1 /\ run.written[1].runs = 2

----------------------------------------------------------------------------
(* Properties of concurrent inserts.                                       *)

IssuedIds(i) == {inst[i].ids[k] : k \in 1..Len(inst[i].ids)}

\* C4 (as claimed): however the steps of two instances inserting into the same
\* counter-backed store interleave, whether or not the counter exists when they start,
\* no identity is issued to both, and once both are done every value either inserted is
\* a live record of its own.
C4_NoDoubleIssue ==
    inst # <<>> =>
        /\ IssuedIds(1) \cap IssuedIds(2) = {}
        /\ AllDone =>
              \A b \in active :
                  /\ \A i \in Instances : \A k \in 1..Len(inst[i].records) :
                        \E j \in 1..Len(db[b].rows) : db[b].rows[j][2] = inst[i].records[k]
                  /\ Cardinality(RowIds(db[b].rows)) = Len(db[b].rows)

----------------------------------------------------------------------------
(* Properties of time_operation and summarise.                             *)

\* C17: time_operation(fn, repeats) calls fn max(1, repeats) times and no more, for
\* every integer repeats; when no call raises it returns max(1, repeats) durations, the
\* i-th being the elapsed time of the i-th call.
C17_RepeatCount ==
    timer.pc # "idle" =>
        LET count == IF timer.repeats >= 1 THEN timer.repeats ELSE 1
        IN  /\ timer.invoked <= count
            /\ timer.pc \in {"returned", "summarised"} =>
                  /\ timer.invoked = count
                  /\ Len(timer.durations) = count /\ Len(timer.log) = count
                  /\ \A i \in 1..Len(timer.log) :
                        timer.log[i] = [call |-> i, elapsed |-> timer.durations[i]]

\* C17 witness: time_operation returned one duration for repeats = -1.
C17_Witness ==
    /\ timer.pc = "returned" /\ timer.repeats = 0 - 1
    /\ timer.invoked = 1 /\ Len(timer.durations) = 1

\* C19 (as claimed): for every sample time_operation returns, in execution order,
\* summarise gives min = the smallest and max = the largest duration, so that
\* min <= median <= max and min <= mean <= max.
C19_MinMaxOfSample ==
    timer.pc = "summarised" =>
        LET st == timer.stats
        IN  /\ st.min = MinOf(Elements(timer.durations))
            /\ st.max = MaxOf(Elements(timer.durations))
            /\ st.min * st.median.den <= st.median.num
            /\ st.median.num <= st.max * st.median.den
            /\ st.min * st.mean.den <= st.mean.num
            /\ st.mean.num <= st.max * st.mean.den

\* The linear-interpolation percentile of xs at rank (n - 1) * q / 4 (q = 1 for p25,
\* q = 3 for p75), as a fraction over 4.
Percentile(xs, q) ==
    LET s    == SortSeq(xs, Ascending)
        r4   == (Len(xs) - 1) * q
        lo   == (r4 \div 4) + 1
        frac == r4 % 4
    IN  [num |-> 4 * s[lo] + (IF frac = 0 THEN 0 ELSE frac * (s[lo + 1] - s[lo])),
         den |-> 4]

\* C20 (as claimed): the statistics of every sample carry p25, p75 and iqr, p25 and p75
\* being the linear-interpolation percentiles of the sorted sample and iqr = p75 - p25.
C20_Percentiles ==
    timer.pc = "summarised" =>
        /\ {"p25", "p75", "iqr"} \subseteq DOMAIN timer.stats
        /\ timer.stats.p25 = Percentile(timer.durations, 1)
        /\ timer.stats.p75 = Percentile(timer.durations, 3)
        /\ timer.stats.iqr = [num |-> timer.stats.p75.num - timer.stats.p25.num, den |-> 4]

====
